---- MODULE Spec2Model ----
(***************************************************************************)
(* Model of backend/server.js: the startup sequence (getDBConfig,          *)
(* ensureDatabaseExists, createPool under connectWithRetry, ensureTables,  *)
(* app.listen) and the health routes of the express application.           *)
(*                                                                         *)
(* One action per resumption of an async function: from the settlement of  *)
(* one awaited promise to the next await (or to the end of the function).  *)
(***************************************************************************)
EXTENDS Integers, Sequences, FiniteSets, TLC

\* ---------------------------------------------------------------- bounds
MaxRetries == 4

\* the values of the parameter retries the startup is explored with
RetryBounds == 1..MaxRetries

\* the value of retries where the requests that follow the startup are explored
FewRetries == 2

\* the number of rows inserted into one table
MaxInserts == 2

\* ------------------------------------------------------------ JS values
Undefined == "undefined"
NoErr == [type |-> "none", step |-> "none", at |-> "none", attempt |-> 0]
None == [route |-> "none", status |-> 0]
Refused == -1

\* the value of db before its assignment
NoPool == [attempt |-> 0]

\* JavaScript truthiness of a parameter value (a string or undefined)
Truthy(v) == v # Undefined /\ v # ""

\* ------------------------------------------------- parameter store (SSM)
RequiredKeys == <<"host", "user", "password", "name">>

\* "/myapp/db/<k>".split("/")
SplitName(k) == <<"", "myapp", "db", k>>

\* Array.prototype.pop of a non-empty array: its last element
Pop(s) == s[Len(s)]

DbNames == {"db1", "db2"}

\* what the store may hold under a requested name: nothing, or a value
ValuesFor(k) ==
    {Undefined, ""} \cup (IF k = "name" THEN DbNames ELSE {"v"})

StoreContents ==
    [host : ValuesFor("host"), user : ValuesFor("user"),
     password : ValuesFor("password"), name : ValuesFor("name")]

RECURSIVE ParametersFrom(_, _)
\* res.Parameters: one {Name, Value} entry per requested name the store holds
ParametersFrom(f, n) ==
    IF n = 0 THEN <<>>
    ELSE LET k == RequiredKeys[n]
             rest == ParametersFrom(f, n - 1)
         IN IF f[k] = Undefined THEN rest
            ELSE Append(rest, [Name |-> SplitName(k), Value |-> f[k]])

Responses == { ParametersFrom(f, Len(RequiredKeys)) : f \in StoreContents }

RECURSIVE CollectParams(_, _)
\* res.Parameters.forEach(p => params[p.Name.split("/").pop()] = p.Value)
CollectParams(ps, n) ==
    IF n = 0 THEN << >>
    ELSE LET before == CollectParams(ps, n - 1)
             key == Pop(ps[n].Name)
         IN [k \in (DOMAIN before) \cup {key} |->
                IF k = key THEN ps[n].Value ELSE before[k]]

\* params.<k> : undefined when the property was never assigned
Prop(params, k) == IF k \in DOMAIN params THEN params[k] ELSE Undefined

\* the condition testing for undefined only, an empty string passing
MissingDBParameters_UndefinedOnly(params) ==
    \/ Prop(params, "host") = Undefined
    \/ Prop(params, "user") = Undefined
    \/ Prop(params, "password") = Undefined
    \/ Prop(params, "name") = Undefined

\* the condition of the throw in getDBConfig
MissingDBParameters(params) ==
    \/ ~Truthy(Prop(params, "host"))
    \/ ~Truthy(Prop(params, "user"))
    \/ ~Truthy(Prop(params, "password"))
    \/ ~Truthy(Prop(params, "name"))

\* -------------------------------------------------------------- database
TableNames == {"student", "teacher"}

VARIABLES
    pc,                \* position of the startup IIFE
    retries,           \* parameter retries of connectWithRetry
    i,                 \* loop variable of connectWithRetry
    res,               \* const res of getDBConfig: res.Parameters
    cfg,               \* const cfg of the current try block
    cfgAttempt,        \* the iteration in which cfg was bound
    db,                \* the module-level let db
    pools,             \* pools built by mysql.createPool
    openConns,         \* bootstrap connections opened and not ended
    listening,         \* the http server is bound to PORT
    exitCode,          \* -1 while the process runs, else its exit status
    err,               \* err of the last catch block of connectWithRetry
    fatal,             \* err of the catch block of the startup IIFE
    getDBConfigCalls,  \* invocations of getDBConfig
    ssmSends,          \* calls of ssm.send
    sleeps,            \* timers set by the catch block
    failures,          \* executions of the catch block of connectWithRetry
    steps,             \* the steps invoked in the current iteration, in order
    ensureTablesRuns,  \* invocations of ensureTables
    databases,         \* databases existing on the server
    tables,            \* <<database, table>> pairs existing on the server
    dbUp,              \* the database server is reachable
    resp,              \* the answer to the last http request
    req,               \* the last http request and the outcome of its query
    body,              \* the JSON body of the answer to the last http request
    rows,              \* the rows of each table of each database
    nextId             \* the AUTO_INCREMENT counter of each table

vars == <<pc, retries, i, res, cfg, cfgAttempt, db, pools, openConns, listening,
          exitCode, err, fatal, getDBConfigCalls, ssmSends, sleeps, failures,
          steps, ensureTablesRuns, databases, tables, dbUp, resp, req, body,
          rows, nextId>>

NoCfg == << >>
NoRes == <<[Name |-> << >>, Value |-> "none"]>>

\* no request yet, and the body of no answer
NoReq == [route |-> "none", id |-> "", fields |-> << >>, query |-> "none"]
Body(m, e, d) == [message |-> m, error |-> e, data |-> d]
NoBody == Body("", "", {})

\* the process before the startup IIFE runs; no request has been made
InitProcess ==
    /\ pc = "start"
    /\ i = 0
    /\ res = NoRes
    /\ cfg = NoCfg
    /\ cfgAttempt = 0
    /\ db = NoPool
    /\ pools = {}
    /\ openConns = 0
    /\ listening = FALSE
    /\ exitCode = -1
    /\ err = NoErr
    /\ fatal = NoErr
    /\ getDBConfigCalls = 0
    /\ ssmSends = 0
    /\ sleeps = 0
    /\ failures = 0
    /\ steps = <<>>
    /\ ensureTablesRuns = 0
    /\ dbUp \in BOOLEAN
    /\ resp = None
    /\ req = NoReq
    /\ body = NoBody

\* a database server whose tables, where they exist, hold no row
EmptyTables ==
    /\ rows = [t \in DbNames \X TableNames |-> {}]
    /\ nextId = [t \in DbNames \X TableNames |-> 1]

Init ==
    /\ InitProcess
    /\ retries \in RetryBounds
    /\ databases \in SUBSET DbNames
    /\ tables \in {{}, databases \X TableNames}
    /\ EmptyTables

\* ------------------------------------------------------------- helpers
PoolConnectionLimit == 10

\* the options object without its database property
PoolOf_NoDatabase(c, n) ==
    [host |-> c.host, user |-> c.user, password |-> c.password,
     database |-> Undefined, connectionLimit |-> PoolConnectionLimit,
     attempt |-> n]

\* the options object handed to mysql.createPool, tagged with the iteration
PoolOf(c, n) ==
    [host |-> c.host, user |-> c.user, password |-> c.password,
     database |-> c.name, connectionLimit |-> PoolConnectionLimit,
     attempt |-> n]

\* an Error thrown in function s by the call or statement a, during
\* iteration i
Error(t, s, a) == [type |-> t, step |-> s, at |-> a, attempt |-> i]


\* variables no startup step writes
envVars == <<retries, databases, tables, dbUp, resp, req, body, rows, nextId,
            listening>>

\* process.exit(1) in the catch block of the startup IIFE
ExitWith(e) ==
    /\ fatal' = e
    /\ exitCode' = 1
    /\ pc' = "exited"
    /\ openConns' = 0

\* the catch block without its rethrow: the last iteration sleeps as well
Catch_NoRethrow(e, conns) ==
    /\ err' = e
    /\ failures' = failures + 1
    /\ cfg' = NoCfg
    /\ cfgAttempt' = 0
    /\ pc' = "sleep"
    /\ sleeps' = sleeps + 1
    /\ openConns' = conns
    /\ UNCHANGED <<fatal, exitCode>>
    /\ UNCHANGED <<i, db, pools, getDBConfigCalls, ssmSends, ensureTablesRuns>>

\* the catch block without its delay: the next iteration follows at once
Catch_NoDelay(e, conns) ==
    /\ err' = e
    /\ failures' = failures + 1
    /\ cfg' = NoCfg
    /\ cfgAttempt' = 0
    /\ IF i = retries
         THEN /\ ExitWith(e)
              /\ sleeps' = sleeps
         ELSE /\ pc' = "sleep"
              /\ sleeps' = sleeps
              /\ openConns' = conns
              /\ UNCHANGED <<fatal, exitCode>>
    /\ UNCHANGED <<i, db, pools, getDBConfigCalls, ssmSends, ensureTablesRuns>>

\* the catch block rethrowing on the first failure (i === 1)
Catch_FailFast(e, conns) ==
    /\ err' = e
    /\ failures' = failures + 1
    /\ cfg' = NoCfg
    /\ cfgAttempt' = 0
    /\ IF i = 1
         THEN /\ ExitWith(e)
              /\ sleeps' = sleeps
         ELSE /\ pc' = "sleep"
              /\ sleeps' = sleeps + 1
              /\ openConns' = conns
              /\ UNCHANGED <<fatal, exitCode>>
    /\ UNCHANGED <<i, db, pools, getDBConfigCalls, ssmSends, ensureTablesRuns>>

\* the catch block of connectWithRetry, entered with e while conns
\* bootstrap connections are open; the last iteration rethrows into the
\* catch block of the startup IIFE
Catch(e, conns) ==
    /\ err' = e
    /\ failures' = failures + 1
    /\ cfg' = NoCfg
    /\ cfgAttempt' = 0
    /\ IF i = retries
         THEN /\ ExitWith(e)
              /\ sleeps' = sleeps
         ELSE /\ pc' = "sleep"
              /\ sleeps' = sleeps + 1
              /\ openConns' = conns
              /\ UNCHANGED <<fatal, exitCode>>
    /\ UNCHANGED <<i, db, pools, getDBConfigCalls, ssmSends, ensureTablesRuns>>

\* the loop test of connectWithRetry with i = n, then the start of the body
EnterIteration(n) ==
    /\ i' = n
    /\ IF n <= retries
         THEN /\ pc' = "ssm"
              /\ getDBConfigCalls' = getDBConfigCalls + 1
              /\ ssmSends' = ssmSends + 1
              /\ steps' = <<"getDBConfig">>
              /\ UNCHANGED <<db, ensureTablesRuns, fatal, exitCode, openConns>>
         ELSE \* the loop ends, connectWithRetry returns undefined,
              \* ensureTables(undefined) throws on db.query
              /\ db' = NoPool
              /\ ensureTablesRuns' = ensureTablesRuns + 1
              /\ ExitWith([type |-> "TypeError", step |-> "ensureTables",
                           at |-> "db.query", attempt |-> 0])
              /\ UNCHANGED <<getDBConfigCalls, ssmSends, steps>>
    /\ UNCHANGED <<cfg, cfgAttempt, pools, err, sleeps, failures>>

\* app.listen called at module load, before connectWithRetry
Start_ListenFirst ==
    /\ pc = "start"
    /\ UNCHANGED res
    /\ EnterIteration(1)
    /\ listening' = TRUE
    /\ UNCHANGED <<retries, databases, tables, dbUp, resp, req, body, rows, nextId>>

\* ------------------------------------------------------ startup actions
\* the loop of connectWithRetry starting at let i = 0
Start_FromZero ==
    /\ pc = "start"
    /\ UNCHANGED res
    /\ EnterIteration(0)
    /\ UNCHANGED envVars

\* the IIFE calls connectWithRetry(): let i = 1
Start ==
    /\ pc = "start"
    /\ UNCHANGED res
    /\ EnterIteration(1)
    /\ UNCHANGED envVars

\* await ssm.send(command) rejects
SsmSendRejects ==
    /\ pc = "ssm"
    /\ UNCHANGED res
    /\ Catch(Error("ConfigError", "getDBConfig", "ssm.send"), openConns)
    /\ UNCHANGED steps
    /\ UNCHANGED envVars

\* await ssm.send(command) resolves with res
SsmSendResolves ==
    /\ pc = "ssm"
    /\ res' \in Responses
    /\ pc' = "params"
    /\ UNCHANGED <<i, cfg, cfgAttempt, db, pools, openConns, exitCode, err,
                   fatal, getDBConfigCalls, ssmSends, sleeps, failures, steps,
                   ensureTablesRuns>>
    /\ UNCHANGED envVars

\* the throw of getDBConfig not stopping the iteration: ensureDatabaseExists
\* is invoked all the same
GetDBConfigThrows_RunsNext ==
    /\ pc = "params"
    /\ MissingDBParameters(CollectParams(res, Len(res)))
    /\ res' = NoRes
    /\ Catch(Error("ConfigError", "getDBConfig", "throw"), openConns)
    /\ steps' = Append(steps, "ensureDatabaseExists")
    /\ UNCHANGED envVars

\* params is filled from res.Parameters, a required parameter is missing:
\* throw new Error("Missing DB parameters in SSM")
GetDBConfigThrows ==
    /\ pc = "params"
    /\ MissingDBParameters(CollectParams(res, Len(res)))
    /\ res' = NoRes
    /\ Catch(Error("ConfigError", "getDBConfig", "throw"), openConns)
    /\ UNCHANGED steps
    /\ UNCHANGED envVars

\* params is filled from res.Parameters and returned;
\* ensureDatabaseExists(cfg) calls mysql.createConnection
GetDBConfigReturns ==
    /\ pc = "params"
    /\ ~MissingDBParameters(CollectParams(res, Len(res)))
    /\ cfg' = CollectParams(res, Len(res))
    /\ res' = NoRes
    /\ cfgAttempt' = i
    /\ steps' = Append(steps, "ensureDatabaseExists")
    /\ pc' = "connect"
    /\ UNCHANGED <<i, db, pools, openConns, exitCode, err, fatal,
                   getDBConfigCalls, ssmSends, sleeps, failures,
                   ensureTablesRuns>>
    /\ UNCHANGED envVars

\* await mysql.createConnection rejects
CreateConnectionRejects ==
    /\ pc = "connect"
    /\ UNCHANGED res
    /\ Catch(Error("SchemaError", "ensureDatabaseExists", "createConnection"), openConns)
    /\ UNCHANGED steps
    /\ UNCHANGED envVars

\* await mysql.createConnection resolves; conn.query is issued
CreateConnectionResolves ==
    /\ pc = "connect"
    /\ UNCHANGED res
    /\ dbUp
    /\ openConns' = openConns + 1
    /\ pc' = "createdb"
    /\ UNCHANGED <<i, cfg, cfgAttempt, db, pools, exitCode, err, fatal,
                   getDBConfigCalls, ssmSends, sleeps, failures, steps,
                   ensureTablesRuns>>
    /\ UNCHANGED envVars

\* await conn.query(CREATE DATABASE IF NOT EXISTS) rejects: the error
\* leaves ensureDatabaseExists before conn.end() is reached
CreateDatabaseRejects ==
    /\ pc = "createdb"
    /\ UNCHANGED res
    /\ Catch(Error("SchemaError", "ensureDatabaseExists", "conn.query"), openConns)
    /\ UNCHANGED steps
    /\ UNCHANGED envVars

\* await conn.query(CREATE DATABASE IF NOT EXISTS) resolves; conn.end()
CreateDatabaseResolves ==
    /\ pc = "createdb"
    /\ UNCHANGED res
    /\ dbUp
    /\ databases' = databases \cup {cfg.name}
    /\ pc' = "end"
    /\ UNCHANGED <<i, cfg, cfgAttempt, db, pools, openConns, exitCode, err,
                   fatal, getDBConfigCalls, ssmSends, sleeps, failures, steps,
                   ensureTablesRuns>>
    /\ UNCHANGED <<retries, tables, dbUp, resp, req, body, rows, nextId, listening>>

\* await conn.end() resolves, ensureDatabaseExists returns,
\* mysql.createPool throws
CreatePoolThrows ==
    /\ pc = "end"
    /\ UNCHANGED res
    /\ steps' = Append(steps, "createPool")
    /\ Catch(Error("PoolError", "createPool", "createPool"), openConns - 1)
    /\ UNCHANGED envVars

\* ensureTables(db) called without await: app.listen follows at once
CreatePoolReturns_NoAwait ==
    /\ pc = "end"
    /\ UNCHANGED res
    /\ openConns' = openConns - 1
    /\ steps' = Append(steps, "createPool")
    /\ pools' = pools \cup {PoolOf(cfg, cfgAttempt)}
    /\ db' = PoolOf(cfg, cfgAttempt)
    /\ cfg' = NoCfg
    /\ cfgAttempt' = 0
    /\ ensureTablesRuns' = ensureTablesRuns + 1
    /\ pc' = "listen"
    /\ UNCHANGED <<i, exitCode, err, fatal, getDBConfigCalls, ssmSends,
                   sleeps, failures>>
    /\ UNCHANGED envVars

\* await conn.end() resolves, ensureDatabaseExists returns, mysql.createPool
\* returns the pool, connectWithRetry returns it, the IIFE stores it in db
\* and calls ensureTables(db), which issues its first query
CreatePoolReturns ==
    /\ pc = "end"
    /\ UNCHANGED res
    /\ openConns' = openConns - 1
    /\ steps' = Append(steps, "createPool")
    /\ pools' = pools \cup {PoolOf(cfg, cfgAttempt)}
    /\ db' = PoolOf(cfg, cfgAttempt)
    /\ cfg' = NoCfg
    /\ cfgAttempt' = 0
    /\ ensureTablesRuns' = ensureTablesRuns + 1
    /\ pc' = "tables1"
    /\ UNCHANGED <<i, exitCode, err, fatal, getDBConfigCalls, ssmSends,
                   sleeps, failures>>
    /\ UNCHANGED envVars

\* a timer whose promise is never resolved
SleepDone_NeverResolves ==
    /\ pc = "sleep"
    /\ FALSE
    /\ UNCHANGED vars

\* the timer of the catch block fires: i++, loop test, next iteration
SleepDone ==
    /\ pc = "sleep"
    /\ UNCHANGED res
    /\ EnterIteration(i + 1)
    /\ UNCHANGED envVars

\* await db.query(CREATE TABLE IF NOT EXISTS student) rejects: the catch
\* block of the startup IIFE exits the process
CreateStudentTableRejects ==
    /\ pc = "tables1"
    /\ UNCHANGED res
    /\ ExitWith(Error("SchemaError", "ensureTables", "student"))
    /\ UNCHANGED <<i, cfg, cfgAttempt, db, pools, err, getDBConfigCalls,
                   ssmSends, sleeps, failures, steps, ensureTablesRuns>>
    /\ UNCHANGED envVars

\* the student table dropped and created again, its rows lost
CreateStudentTableResolves_Recreates ==
    /\ pc = "tables1"
    /\ UNCHANGED res
    /\ dbUp
    /\ tables' = tables \cup {<<db.database, "student">>}
    /\ rows' = [rows EXCEPT ![<<db.database, "student">>] = {}]
    /\ pc' = "tables2"
    /\ UNCHANGED <<i, cfg, cfgAttempt, db, pools, openConns, exitCode, err,
                   fatal, getDBConfigCalls, ssmSends, sleeps, failures, steps,
                   ensureTablesRuns>>
    /\ UNCHANGED <<retries, databases, dbUp, resp, req, body, nextId, listening>>

\* await db.query(CREATE TABLE IF NOT EXISTS student) resolves; the second
\* query is issued
CreateStudentTableResolves ==
    /\ pc = "tables1"
    /\ UNCHANGED res
    /\ dbUp
    /\ tables' = tables \cup {<<db.database, "student">>}
    /\ pc' = "tables2"
    /\ UNCHANGED <<i, cfg, cfgAttempt, db, pools, openConns, exitCode, err,
                   fatal, getDBConfigCalls, ssmSends, sleeps, failures, steps,
                   ensureTablesRuns>>
    /\ UNCHANGED <<retries, databases, dbUp, resp, req, body, rows, nextId, listening>>

\* await db.query(CREATE TABLE IF NOT EXISTS teacher) rejects
CreateTeacherTableRejects ==
    /\ pc = "tables2"
    /\ UNCHANGED res
    /\ ExitWith(Error("SchemaError", "ensureTables", "teacher"))
    /\ UNCHANGED <<i, cfg, cfgAttempt, db, pools, err, getDBConfigCalls,
                   ssmSends, sleeps, failures, steps, ensureTablesRuns>>
    /\ UNCHANGED envVars

\* await db.query(CREATE TABLE IF NOT EXISTS teacher) resolves, ensureTables
\* returns, the IIFE calls app.listen(PORT)
CreateTeacherTableResolves ==
    /\ pc = "tables2"
    /\ UNCHANGED res
    /\ dbUp
    /\ tables' = tables \cup {<<db.database, "teacher">>}
    /\ pc' = "listen"
    /\ UNCHANGED <<i, cfg, cfgAttempt, db, pools, openConns, exitCode, err,
                   fatal, getDBConfigCalls, ssmSends, sleeps, failures, steps,
                   ensureTablesRuns>>
    /\ UNCHANGED <<retries, databases, dbUp, resp, req, body, rows, nextId, listening>>

\* the server is bound to PORT: the callback of app.listen runs
Listening ==
    /\ pc = "listen"
    /\ UNCHANGED res
    /\ listening' = TRUE
    /\ pc' = "serving"
    /\ UNCHANGED <<i, cfg, cfgAttempt, db, pools, openConns, exitCode, err,
                   fatal, getDBConfigCalls, ssmSends, sleeps, failures, steps,
                   ensureTablesRuns>>
    /\ UNCHANGED <<retries, databases, tables, dbUp, resp, req, body, rows, nextId>>

\* PORT cannot be bound: the server emits 'error', which has no listener,
\* and the uncaught exception ends the process with status 1
ListenFails ==
    /\ pc = "listen"
    /\ UNCHANGED res
    /\ exitCode' = 1
    /\ pc' = "exited"
    /\ openConns' = 0
    /\ UNCHANGED <<i, cfg, cfgAttempt, db, pools, err, fatal,
                   getDBConfigCalls, ssmSends, sleeps, failures, steps,
                   ensureTablesRuns>>
    /\ UNCHANGED envVars

\* ------------------------------------------------------------ environment
\* the database server becomes unreachable, or reachable again
DatabaseAvailabilityChanges ==
    /\ exitCode = -1
    /\ dbUp' = ~dbUp
    /\ UNCHANGED <<pc, retries, i, res, cfg, cfgAttempt, db, pools, openConns,
                   listening, exitCode, err, fatal, getDBConfigCalls, ssmSends,
                   sleeps, failures, steps, ensureTablesRuns, databases,
                   tables, resp, req, body, rows, nextId>>

\* ----------------------------------------------------------------- routes
Routes == {"/health", "/health/db"}

\* error.message of a rejected db.query
QueryErrorMessage == "query failed"

startupVars == <<pc, retries, i, res, cfg, cfgAttempt, db, pools, openConns,
                 listening, exitCode, err, fatal, getDBConfigCalls, ssmSends,
                 sleeps, failures, steps, ensureTablesRuns, databases, tables,
                 dbUp>>

\* a client connects to PORT while no server is bound to it
ConnectionRefused ==
    /\ ~listening
    /\ \E r \in Routes :
          /\ resp' = [route |-> r, status |-> Refused]
          /\ req' = [NoReq EXCEPT !.route = r]
    /\ body' = NoBody
    /\ UNCHANGED <<rows, nextId>>
    /\ UNCHANGED startupVars

\* a /health handler that answers from the state of the database
GetHealth_NeedsDb ==
    /\ listening
    /\ resp' = [route |-> "/health", status |-> IF dbUp THEN 200 ELSE 500]
    /\ req' = [NoReq EXCEPT !.route = "/health"]
    /\ body' = Body("ok", "", {})
    /\ UNCHANGED <<rows, nextId>>
    /\ UNCHANGED startupVars

\* app.get('/health'): res.status(200).json(...)
GetHealth ==
    /\ listening
    /\ resp' = [route |-> "/health", status |-> 200]
    /\ req' = [NoReq EXCEPT !.route = "/health"]
    /\ body' = Body("ok", "", {})
    /\ UNCHANGED <<rows, nextId>>
    /\ UNCHANGED startupVars

\* a /health/db handler that builds a new pool when its query fails
GetHealthDb_Reconnects ==
    /\ listening
    /\ \E ok \in BOOLEAN :
          LET up == db # NoPool /\ dbUp /\ ok
              fresh == [db EXCEPT !.attempt = @ + 1]
          IN /\ resp' = [route |-> "/health/db",
                         status |-> IF up THEN 200 ELSE 500]
             /\ req' = [NoReq EXCEPT !.route = "/health/db",
                                     !.query = IF up THEN "ok" ELSE "failed"]
             /\ body' = IF up THEN Body("ok", "", {})
                               ELSE Body("error", QueryErrorMessage, {})
             /\ db' = IF up THEN db ELSE fresh
             /\ pools' = IF up THEN pools ELSE pools \cup {fresh}
    /\ UNCHANGED <<rows, nextId>>
    /\ UNCHANGED <<pc, retries, i, res, cfg, cfgAttempt, openConns,
                   listening, exitCode, err, fatal, getDBConfigCalls, ssmSends,
                   sleeps, failures, steps, ensureTablesRuns, databases, tables,
                   dbUp>>

\* app.get('/health/db'): db.query('SELECT 1 as db_up') inside try/catch
GetHealthDb ==
    /\ listening
    /\ \E ok \in BOOLEAN :
          LET up == db # NoPool /\ dbUp /\ ok
          IN /\ resp' = [route |-> "/health/db",
                         status |-> IF up THEN 200 ELSE 500]
             /\ req' = [NoReq EXCEPT !.route = "/health/db",
                                     !.query = IF up THEN "ok" ELSE "failed"]
             /\ body' = IF up THEN Body("ok", "", {})
                               ELSE Body("error", QueryErrorMessage, {})
    /\ UNCHANGED <<rows, nextId>>
    /\ UNCHANGED startupVars

\* ---------------------------------------------------------- specification
Next ==
    \/ Start
    \/ SsmSendRejects
    \/ SsmSendResolves
    \/ GetDBConfigThrows
    \/ GetDBConfigReturns
    \/ CreateConnectionRejects
    \/ CreateConnectionResolves
    \/ CreateDatabaseRejects
    \/ CreateDatabaseResolves
    \/ CreatePoolThrows
    \/ CreatePoolReturns
    \/ SleepDone
    \/ CreateStudentTableRejects
    \/ CreateStudentTableResolves
    \/ CreateTeacherTableRejects
    \/ CreateTeacherTableResolves
    \/ Listening
    \/ ListenFails
    \/ DatabaseAvailabilityChanges
    \/ ConnectionRefused
    \/ GetHealth
    \/ GetHealthDb

Spec == Init /\ [][Next]_vars

TypeOK ==
    /\ pc \in {"start", "ssm", "params", "connect", "createdb", "end", "sleep",
               "tables1", "tables2", "listen", "serving", "exited"}
    /\ retries \in RetryBounds
    /\ i \in 0..retries
    /\ openConns \in 0..retries
    /\ exitCode \in {-1, 1}
    /\ listening \in BOOLEAN
    /\ dbUp \in BOOLEAN
    /\ databases \subseteq DbNames
    /\ tables \subseteq (DbNames \X TableNames)

\* ------------------------------------------------------------ CRUD routes
\* no answer is ever sent for the request
NoAnswer == -2

\* req.body of POST /addstudent and of POST /addteacher
StudentBodies == [name : {"Alice"}, rollNo : {"A1"}, class : {"5A"}]
TeacherBodies == [name : {"Carol"}, subject : {"Math"}, class : {"5B"}]

\* req.params.id : the text of the last path segment
IdParams == { ToString(n) : n \in 1..(MaxInserts + 1) }

\* the number MySQL compares the column id with, given the text s
SqlNumber(s) == CHOOSE n \in 0..(MaxInserts + 1) : ToString(n) = s

\* the table t of the database the pool is connected to
PoolTable(t) == <<db.database, t>>

\* a statement on table t can succeed
CanQuery(t) == listening /\ dbUp /\ PoolTable(t) \in tables

\* the routes whose handlers await db.query outside any try block
UncaughtRoutes == {"/", "/student", "/teacher", "/addstudent", "/addteacher"}

\* db.query("SELECT * FROM t") resolves: res.json of the rows
Select(r, t, m) ==
    /\ CanQuery(t)
    /\ resp' = [route |-> r, status |-> 200]
    /\ req' = [NoReq EXCEPT !.route = r, !.query = "ok"]
    /\ body' = Body(m, "", rows[PoolTable(t)])
    /\ UNCHANGED <<rows, nextId>>
    /\ UNCHANGED startupVars

\* app.get("/")
GetRoot ==
    /\ listening
    /\ Select("/", "student", "Backend running")

\* app.get("/student")
GetStudent ==
    /\ listening
    /\ Select("/student", "student", "")

\* app.get("/teacher")
GetTeacher ==
    /\ listening
    /\ Select("/teacher", "teacher", "")

\* the insert binding the columns in the order name, class, roll_number
AddStudent_ColumnsSwapped ==
    /\ CanQuery("student")
    /\ nextId[PoolTable("student")] <= MaxInserts
    /\ \E b \in StudentBodies :
          /\ rows' = [rows EXCEPT ![PoolTable("student")] = @ \cup
                        {[id |-> nextId[PoolTable("student")], name |-> b.name,
                          roll_number |-> b.class, class |-> b.rollNo]}]
          /\ req' = [NoReq EXCEPT !.route = "/addstudent", !.fields = b,
                                  !.query = "ok"]
    /\ nextId' = [nextId EXCEPT ![PoolTable("student")] = @ + 1]
    /\ resp' = [route |-> "/addstudent", status |-> 200]
    /\ body' = Body("Student added", "", {})
    /\ UNCHANGED startupVars

\* app.post("/addstudent"): the INSERT resolves
AddStudent ==
    /\ CanQuery("student")
    /\ nextId[PoolTable("student")] <= MaxInserts
    /\ \E b \in StudentBodies :
          /\ rows' = [rows EXCEPT ![PoolTable("student")] = @ \cup
                        {[id |-> nextId[PoolTable("student")], name |-> b.name,
                          roll_number |-> b.rollNo, class |-> b.class]}]
          /\ req' = [NoReq EXCEPT !.route = "/addstudent", !.fields = b,
                                  !.query = "ok"]
    /\ nextId' = [nextId EXCEPT ![PoolTable("student")] = @ + 1]
    /\ resp' = [route |-> "/addstudent", status |-> 200]
    /\ body' = Body("Student added", "", {})
    /\ UNCHANGED startupVars

\* app.post("/addteacher"): the INSERT resolves
AddTeacher ==
    /\ CanQuery("teacher")
    /\ nextId[PoolTable("teacher")] <= MaxInserts
    /\ \E b \in TeacherBodies :
          /\ rows' = [rows EXCEPT ![PoolTable("teacher")] = @ \cup
                        {[id |-> nextId[PoolTable("teacher")], name |-> b.name,
                          subject |-> b.subject, class |-> b.class]}]
          /\ req' = [NoReq EXCEPT !.route = "/addteacher", !.fields = b,
                                  !.query = "ok"]
    /\ nextId' = [nextId EXCEPT ![PoolTable("teacher")] = @ + 1]
    /\ resp' = [route |-> "/addteacher", status |-> 200]
    /\ body' = Body("Teacher added", "", {})
    /\ UNCHANGED startupVars

\* db.query("DELETE FROM t WHERE id = ?") resolves: 404 when affectedRows
\* is 0, else 200
Delete(r, t, notFound, deleted) ==
    /\ CanQuery(t)
    /\ \E id \in IdParams :
          LET matched == { x \in rows[PoolTable(t)] : x.id = SqlNumber(id) }
          IN /\ rows' = [rows EXCEPT ![PoolTable(t)] = @ \ matched]
             /\ resp' = [route |-> r,
                         status |-> IF matched = {} THEN 404 ELSE 200]
             /\ body' = Body(IF matched = {} THEN notFound ELSE deleted, "", {})
             /\ req' = [NoReq EXCEPT !.route = r, !.id = id, !.query = "ok"]
    /\ UNCHANGED nextId
    /\ UNCHANGED startupVars

\* db.query("DELETE FROM t WHERE id = ?") rejects: the catch block answers
DeleteRejects(r, e) ==
    /\ listening
    /\ \E id \in IdParams :
          req' = [NoReq EXCEPT !.route = r, !.id = id, !.query = "failed"]
    /\ resp' = [route |-> r, status |-> 500]
    /\ body' = Body("", e, {})
    /\ UNCHANGED <<rows, nextId>>
    /\ UNCHANGED startupVars

\* a delete handler answering 200 without looking at affectedRows
DeleteStudent_NoNotFound ==
    /\ CanQuery("student")
    /\ \E id \in IdParams :
          LET matched == { x \in rows[PoolTable("student")] : x.id = SqlNumber(id) }
          IN /\ rows' = [rows EXCEPT ![PoolTable("student")] = @ \ matched]
             /\ req' = [NoReq EXCEPT !.route = "/student/:id", !.id = id,
                                     !.query = "ok"]
    /\ resp' = [route |-> "/student/:id", status |-> 200]
    /\ body' = Body("Student deleted successfully", "", {})
    /\ UNCHANGED nextId
    /\ UNCHANGED startupVars

\* app.delete("/student/:id")
DeleteStudent ==
    /\ listening
    /\ Delete("/student/:id", "student", "Student not found",
              "Student deleted successfully")

\* app.delete("/student/:id"): catch (err)
DeleteStudentRejects ==
    /\ listening
    /\ DeleteRejects("/student/:id", "Failed to delete student")

\* app.delete("/teacher/:id")
DeleteTeacher ==
    /\ listening
    /\ Delete("/teacher/:id", "teacher", "Teacher not found",
              "Teacher deleted successfully")

\* app.delete("/teacher/:id"): catch (err)
DeleteTeacherRejects ==
    /\ listening
    /\ DeleteRejects("/teacher/:id", "Failed to delete teacher")

\* await db.query rejects in a handler without try block; the rejection of
\* the handler's promise is merely reported and the request stays unanswered
QueryRejectsUnanswered ==
    /\ listening
    /\ \E r \in UncaughtRoutes :
          /\ resp' = [route |-> r, status |-> NoAnswer]
          /\ req' = [NoReq EXCEPT !.route = r, !.query = "failed"]
    /\ body' = NoBody
    /\ UNCHANGED <<rows, nextId>>
    /\ UNCHANGED startupVars

\* await db.query rejects in a handler without try block; the unhandled
\* rejection ends the process with status 1
QueryRejectsEndsProcess ==
    /\ listening
    /\ \E r \in UncaughtRoutes :
          /\ resp' = [route |-> r, status |-> NoAnswer]
          /\ req' = [NoReq EXCEPT !.route = r, !.query = "failed"]
    /\ body' = NoBody
    /\ exitCode' = 1
    /\ listening' = FALSE
    /\ pc' = "exited"
    /\ openConns' = 0
    /\ UNCHANGED <<rows, nextId>>
    /\ UNCHANGED <<retries, i, res, cfg, cfgAttempt, db, pools, err, fatal,
                   getDBConfigCalls, ssmSends, sleeps, failures, steps,
                   ensureTablesRuns, databases, tables, dbUp>>

NextRoutes ==
    \/ GetRoot
    \/ GetStudent
    \/ GetTeacher
    \/ AddStudent
    \/ AddTeacher
    \/ DeleteStudent
    \/ DeleteStudentRejects
    \/ DeleteTeacher
    \/ DeleteTeacherRejects
    \/ QueryRejectsUnanswered
    \/ QueryRejectsEndsProcess

\* the startup with one retry against a server without databases, and every
\* route of the application
InitRequests ==
    /\ InitProcess
    /\ retries = FewRetries
    /\ databases = {}
    /\ tables = {}
    /\ EmptyTables

NextRequests == Next \/ NextRoutes

SpecRequests == InitRequests /\ [][NextRequests]_vars

\* ------------------------------------------------ further specifications
AllTables == DbNames \X TableNames

\* a row an earlier run of the process left in table k
EarlierRow(k) ==
    IF k[2] = "student"
      THEN [id |-> 1, name |-> "Alice", roll_number |-> "A1", class |-> "5A"]
      ELSE [id |-> 1, name |-> "Carol", subject |-> "Math", class |-> "5B"]

\* the process started against a server as an earlier run may have left it:
\* with its databases, its tables and rows in them
InitRestart ==
    /\ InitProcess
    /\ retries = FewRetries
    /\ databases \in SUBSET DbNames
    /\ tables \in {{}, databases \X TableNames}
    /\ \E filled \in BOOLEAN :
          /\ rows = [k \in AllTables |->
                       IF filled /\ k \in tables THEN {EarlierRow(k)} ELSE {}]
          /\ nextId = [k \in AllTables |->
                         IF filled /\ k \in tables THEN 2 ELSE 1]

SpecRestart == InitRestart /\ [][Next]_vars

\* a step of the startup path: an awaited promise settles
StartupStep ==
    \/ Start
    \/ SsmSendRejects
    \/ SsmSendResolves
    \/ GetDBConfigThrows
    \/ GetDBConfigReturns
    \/ CreateConnectionRejects
    \/ CreateConnectionResolves
    \/ CreateDatabaseRejects
    \/ CreateDatabaseResolves
    \/ CreatePoolThrows
    \/ CreatePoolReturns
    \/ SleepDone
    \/ CreateStudentTableRejects
    \/ CreateStudentTableResolves
    \/ CreateTeacherTableRejects
    \/ CreateTeacherTableResolves
    \/ Listening
    \/ ListenFails

\* the process started against a server that holds no database yet
InitFresh ==
    /\ InitProcess
    /\ retries \in RetryBounds
    /\ databases = {}
    /\ tables = {}
    /\ EmptyTables

\* every awaited promise of the startup path settles
SpecFair == InitFresh /\ [][Next]_vars /\ WF_vars(StartupStep)

\* connectWithRetry called with any value of retries, zero and below included
AnyRetryBounds == (0 - 1)..MaxRetries

InitAnyBound ==
    /\ InitProcess
    /\ retries \in AnyRetryBounds
    /\ databases \in SUBSET DbNames
    /\ tables \in {{}, databases \X TableNames}
    /\ EmptyTables

SpecAnyBound == InitAnyBound /\ [][Next]_vars

\* --------------------------------------------------------------- claims
ConnectSteps == <<"getDBConfig", "ensureDatabaseExists", "createPool">>

\* positions inside connectWithRetry
InConnect == pc \in {"ssm", "params", "connect", "createdb", "end", "sleep"}

\* C1: the server is listening, or a route handler has answered a request,
\* only when exactly one pool has been built and db refers to that pool
C1_ServingRequiresPool ==
    (listening \/ pc = "serving" \/ resp.status \in {200, 404, 500})
        => (Cardinality(pools) = 1 /\ db \in pools)

C1_Witness ==
    listening /\ resp = [route |-> "/health/db", status |-> 200] /\ failures >= 1

\* C2: when the catch block runs in iteration retries, the step ends the
\* process with status 1 and the error of that iteration, setting no timer
\* and calling getDBConfig no more; once exited, the startup never moves on
\* and the server never listens
C2_LastFailureIsFatal ==
    [][ /\ (failures' = failures + 1 /\ i = retries)
            => /\ pc' = "exited"
               /\ exitCode' = 1
               /\ fatal' = err'
               /\ fatal'.attempt = retries
               /\ sleeps' = sleeps
               /\ getDBConfigCalls' = getDBConfigCalls
               /\ i' = i
               /\ ~listening'
        /\ pc = "exited"
            => /\ UNCHANGED startupVars
               /\ ~listening
               /\ getDBConfigCalls <= retries ]_vars

C2_Witness ==
    /\ pc = "exited"
    /\ failures = retries
    /\ retries >= 3
    /\ fatal.at = "conn.query"
    /\ sleeps = retries - 1

\* C3: a failure in an iteration i < retries sets the timer once, iteration
\* i + 1 starts only when that timer fires, it calls getDBConfig again, and
\* the cfg an iteration works with is the one bound in that iteration
C3_DelayThenRefetch ==
    [][ /\ (failures' = failures + 1 /\ i < retries)
            => /\ pc' = "sleep"
               /\ sleeps' = sleeps + 1
               /\ sleeps' = i
               /\ cfg' = NoCfg
        /\ (i' # i /\ i >= 1)
            => /\ pc = "sleep"
               /\ i' = i + 1
               /\ sleeps' = sleeps
               /\ sleeps = i
               /\ getDBConfigCalls' = getDBConfigCalls + 1
               /\ getDBConfigCalls' = i'
               /\ pc' = "ssm"
               /\ cfg' = NoCfg
        /\ (cfg' # NoCfg)
            => /\ cfgAttempt' = i'
               /\ getDBConfigCalls' = i' ]_vars

C3_Witness ==
    /\ pc = "connect"
    /\ i = 3
    /\ sleeps = 2
    /\ getDBConfigCalls = 3
    /\ cfgAttempt = 3

\* C4: once connectWithRetry has returned a pool, built in iteration k, there
\* have been k - 1 delays, k - 1 failures and k calls of getDBConfig, and
\* these numbers stay as they are
C4_SuccessAfterKMinusOneDelays ==
    db # NoPool
        => /\ db.attempt \in 1..retries
           /\ i = db.attempt
           /\ sleeps = db.attempt - 1
           /\ failures = db.attempt - 1
           /\ getDBConfigCalls = db.attempt
           /\ pc \notin {"ssm", "params", "connect", "createdb", "end", "sleep"}

C4_Witness ==
    db # NoPool /\ db.attempt = 4 /\ sleeps = 3 /\ pc = "serving"

\* C5: the steps invoked in an iteration are an initial part of getDBConfig,
\* ensureDatabaseExists, createPool; an iteration in which a step failed has
\* invoked no later step and built no pool
C5_StepsInOrder ==
    /\ Len(steps) <= Len(ConnectSteps)
    /\ steps = SubSeq(ConnectSteps, 1, Len(steps))
    /\ (failures > 0 /\ err.attempt = i /\ pc \in {"sleep", "exited"})
        => /\ steps[Len(steps)] = err.step
           /\ \A p \in pools : p.attempt # i
    /\ \A p \in pools : steps = ConnectSteps /\ p.attempt = i
    /\ pc \in {"ssm", "params"} => steps = SubSeq(ConnectSteps, 1, 1)
    /\ pc \in {"connect", "createdb", "end"} => steps = SubSeq(ConnectSteps, 1, 2)

C5_Witness ==
    /\ pc = "sleep"
    /\ err.step = "ensureDatabaseExists"
    /\ err.attempt = 2
    /\ steps = SubSeq(ConnectSteps, 1, 2)
    /\ pools = {}

\* C6: outside ensureDatabaseExists no bootstrap connection is open: every
\* connection it opened has been ended when it returns or throws
C6_BootstrapConnectionReleased ==
    pc \notin {"createdb", "end"} => openConns = 0

\* C7: ensureTables is invoked at most once, exactly when connectWithRetry
\* has returned a pool, never inside connectWithRetry nor on a startup that
\* failed there; app.listen is called, and the server listens, only after
\* both tables of the pool's database have been created
C7_EnsureTablesOnce ==
    /\ ensureTablesRuns \in {0, 1}
    /\ (ensureTablesRuns = 1) <=> (db # NoPool)
    /\ (pc = "start" \/ InConnect) => ensureTablesRuns = 0
    /\ (pc = "exited" /\ fatal.step \in {ConnectSteps[n] : n \in 1..3})
        => ensureTablesRuns = 0
    /\ (listening \/ pc \in {"listen", "serving"})
        => /\ ensureTablesRuns = 1
           /\ ({db.database} \X TableNames) \subseteq tables

C7_Witness ==
    /\ listening
    /\ ensureTablesRuns = 1
    /\ failures >= 1
    /\ resp.status = 200

\* C8 as stated: a startup error ends the process only when every one of
\* the retries iterations has failed
C8_EveryStartupErrorRetried ==
    (exitCode = 1 /\ fatal # NoErr) => (failures = retries /\ i = retries)

\* C8 amended: an error thrown inside connectWithRetry ends the process only
\* as the error of iteration retries, after retries failures; an error of
\* ensureTables ends the process at once, whatever iterations remain; the
\* server listens only with a pool and both tables
C8_ConnectErrorsRetried ==
    /\ (exitCode = 1 /\ fatal.step \in {ConnectSteps[n] : n \in 1..3})
        => /\ failures = retries
           /\ i = retries
           /\ fatal = err
           /\ fatal.attempt = retries
           /\ fatal.type \in {"ConfigError", "SchemaError", "PoolError"}
    /\ (exitCode = 1 /\ fatal.step = "ensureTables")
        => /\ fatal.type = "SchemaError"
           /\ fatal.attempt = i
           /\ failures = i - 1
           /\ ensureTablesRuns = 1
    /\ exitCode = 1 => ~listening
    /\ listening
        => /\ db \in pools
           /\ ({db.database} \X TableNames) \subseteq tables

C8_Witness ==
    /\ exitCode = 1
    /\ fatal.step = "ensureTables"
    /\ fatal.at = "teacher"
    /\ i = 1
    /\ retries >= 2

\* C9 as stated: every GET /health is answered with status 200
C9_HealthAlways200 ==
    resp.route = "/health" => resp.status = 200

\* C9 amended: a GET /health is answered with 200 exactly when the server
\* is listening, whatever the state of the database and of db, and gets no
\* answer while the server is not listening
C9_HealthWhenListening ==
    [][ (resp' # resp /\ resp'.route = "/health")
            => resp'.status = (IF listening THEN 200 ELSE Refused) ]_vars

C9_Witness ==
    resp = [route |-> "/health", status |-> 200] /\ ~dbUp

\* the Value the store returned under the requested name k, if any
ValueIn(r, k) ==
    IF \E n \in 1..Len(r) : r[n].Name = SplitName(k)
      THEN r[CHOOSE n \in 1..Len(r) : r[n].Name = SplitName(k)].Value
      ELSE Undefined

CompleteResponse(r) ==
    \A n \in 1..Len(RequiredKeys) : ValueIn(r, RequiredKeys[n]) \notin {Undefined, ""}

\* C10: getDBConfig throws when one of the four parameters is absent from
\* the response or empty, returns the four values otherwise, and each call
\* of getDBConfig makes one call of ssm.send, whatever its outcome
C10_FetcherValidates ==
    [][ /\ (pc = "params" /\ pc' # "params")
            => /\ IF CompleteResponse(res)
                    THEN /\ pc' = "connect"
                         /\ failures' = failures
                         /\ cfg' = [k \in {"host", "user", "password", "name"}
                                       |-> ValueIn(res, k)]
                    ELSE /\ pc' \in {"sleep", "exited"}
                         /\ failures' = failures + 1
                         /\ err'.type = "ConfigError"
                         /\ err'.step = "getDBConfig"
                         /\ cfg' = NoCfg
               /\ ssmSends' = ssmSends
        /\ (pc = "ssm" /\ pc' \notin {"ssm", "params"})
            => /\ failures' = failures + 1
               /\ err'.step = "getDBConfig"
               /\ ssmSends' = ssmSends
        /\ ssmSends' = getDBConfigCalls'
        /\ getDBConfigCalls' \in {getDBConfigCalls, getDBConfigCalls + 1} ]_vars

C10_Witness ==
    /\ pc = "sleep"
    /\ err.at = "throw"
    /\ err.attempt = 2
    /\ ssmSends = 2
    /\ getDBConfigCalls = 2

\* ------------------------------------------------- claims on the requests
\* a step in which a request on route r is handled
Handled(r) ==
    /\ resp'.route = r
    /\ <<resp, req, body, rows, nextId, exitCode>>' #
           <<resp, req, body, rows, nextId, exitCode>>

\* C11: db is unset as long as connectWithRetry has not returned, it is
\* assigned once, with the pool connectWithRetry built, and after that no
\* step, whatever request it handles and whether its query fails or not,
\* changes db or the set of pools
C11_PoolReferenceAssignedOnce ==
    [][ /\ db # NoPool => (db' = db /\ pools' = pools)
        /\ db' # db => (pc = "end" /\ pc' = "tables1" /\ pools' = {db'})
        /\ (pc' = "start" \/ InConnect') => db' = NoPool
        /\ listening' => db' \in pools' ]_vars

C11_Witness ==
    /\ db \in pools
    /\ pc = "serving"
    /\ req.query = "failed"
    /\ resp.status = NoAnswer
    /\ \E k \in AllTables : rows[k] # {}

\* C13: the answer to a request whose query failed has status 500 and
\* carries the message of the query's error
C13_QueryFailureAnswered500 ==
    req.query = "failed"
        => (resp.status = 500 /\ body.error = QueryErrorMessage)

DeleteRoute(t) == IF t = "student" THEN "/student/:id" ELSE "/teacher/:id"
NotFoundMessage(t) ==
    IF t = "student" THEN "Student not found" ELSE "Teacher not found"

\* C14: a DELETE on a table is answered 200 exactly when its statement
\* succeeded and a row of that table had the id, 404 with the not-found
\* message exactly when it succeeded and no row had the id, 500 exactly
\* when it failed; 404 and 500 leave every table as it was, 200 removes
\* the one row with that id from the addressed table and nothing else
C14_DeleteOutcomes ==
    [][ \A t \in TableNames :
          Handled(DeleteRoute(t)) =>
            LET hit == { x \in rows[<<db.database, t>>] : ToString(x.id) = req'.id }
            IN /\ resp'.status \in {200, 404, 500}
               /\ (resp'.status = 200) <=> (req'.query = "ok" /\ hit # {})
               /\ (resp'.status = 404) <=> (req'.query = "ok" /\ hit = {})
               /\ (resp'.status = 500) <=> (req'.query = "failed")
               /\ resp'.status = 404 => body'.message = NotFoundMessage(t)
               /\ resp'.status \in {404, 500} => rows' = rows
               /\ resp'.status = 200
                    => /\ Cardinality(hit) = 1
                       /\ rows' = [rows EXCEPT ![<<db.database, t>>] = @ \ hit] ]_vars

C14_Witness ==
    /\ resp = [route |-> "/student/:id", status |-> 200]
    /\ req.id = "1"
    /\ \E x \in rows[<<db.database, "student">>] : x.id = 2
    /\ rows[<<db.database, "teacher">>] # {}

\* C15: an answered POST /addstudent has added one row to the student table
\* of the pool's database, with the three values of the body and an id no
\* other row of the table has, and has left every other table alone; a row
\* leaves a table only through the DELETE of its id; a GET /student answers
\* with all the rows of the table
C15_AddedStudentIsListed ==
    [][ /\ (Handled("/addstudent") /\ resp'.status = 200)
            => LET T == <<db.database, "student">>
               IN /\ \E x \in rows'[T] :
                        /\ rows'[T] = rows[T] \cup {x}
                        /\ x.name = req'.fields.name
                        /\ x.roll_number = req'.fields.rollNo
                        /\ x.class = req'.fields.class
                        /\ \A y \in rows[T] : y.id # x.id
                  /\ \A k \in AllTables \ {T} : rows'[k] = rows[k]
        /\ \A k \in AllTables :
              \A x \in rows[k] \ rows'[k] :
                  /\ resp'.route = DeleteRoute(k[2])
                  /\ req'.id = ToString(x.id)
        /\ \A k \in AllTables :
              \A x, y \in rows'[k] : x.id = y.id => x = y
        /\ (Handled("/student") /\ resp'.status = 200)
            => /\ body'.data = rows[<<db.database, "student">>]
               /\ rows' = rows ]_vars

C15_Witness ==
    /\ resp = [route |-> "/student", status |-> 200]
    /\ body.data = {[id |-> 2, name |-> "Alice", roll_number |-> "A1",
                     class |-> "5A"]}
    /\ rows[<<db.database, "teacher">>] # {}

\* ------------------------------------------- claims on the startup, again
\* C12: the pool connectWithRetry returns is built in iteration i from the
\* cfg bound in iteration i, the database created in an iteration is the one
\* cfg names, and the pool connects to it; a failure discards cfg, and a
\* bound cfg is never changed
C12_PoolFromSameAttempt ==
    [][ /\ (pc = "createdb" /\ pc' = "end")
            => /\ databases' = databases \cup {cfg.name}
               /\ cfgAttempt = i
               /\ cfg' = cfg
        /\ pools' # pools
            => /\ cfgAttempt = i
               /\ \E p \in pools' :
                    /\ pools' = pools \cup {p}
                    /\ db' = p
                    /\ p.attempt = i
                    /\ p.host = cfg.host
                    /\ p.user = cfg.user
                    /\ p.password = cfg.password
                    /\ p.database = cfg.name
                    /\ p.database \in databases
        /\ pc' \in {"connect", "createdb", "end"}
            => (cfg' # NoCfg /\ cfgAttempt' = i')
        /\ failures' # failures => cfg' = NoCfg
        /\ (cfg # NoCfg /\ cfg' # cfg) => cfg' = NoCfg ]_vars

C12_Witness ==
    /\ db \in pools
    /\ db.attempt = 2
    /\ db.database = "db2"
    /\ err.at = "createPool"
    /\ err.attempt = 1
    /\ "db1" \in databases

\* C16: CREATE DATABASE IF NOT EXISTS and both CREATE TABLE IF NOT EXISTS
\* can succeed whether or not their object exists, and when it exists their
\* success leaves the databases, the tables, the rows and the counters as
\* they were; when it does not exist they add that object and nothing else
C16_EnsureIsIdempotent ==
    /\ []((pc = "createdb" /\ dbUp) => ENABLED CreateDatabaseResolves)
    /\ []((pc = "tables1" /\ dbUp) => ENABLED CreateStudentTableResolves)
    /\ []((pc = "tables2" /\ dbUp) => ENABLED CreateTeacherTableResolves)
    /\ [][ /\ (pc = "createdb" /\ pc' = "end")
               => /\ databases' = databases \cup {cfg.name}
                  /\ cfg.name \in databases => databases' = databases
                  /\ UNCHANGED <<tables, rows, nextId>>
           /\ (pc = "tables1" /\ pc' = "tables2")
               => /\ tables' = tables \cup {<<db.database, "student">>}
                  /\ <<db.database, "student">> \in tables => tables' = tables
                  /\ UNCHANGED <<databases, rows, nextId>>
           /\ (pc = "tables2" /\ pc' = "listen")
               => /\ tables' = tables \cup {<<db.database, "teacher">>}
                  /\ <<db.database, "teacher">> \in tables => tables' = tables
                  /\ UNCHANGED <<databases, rows, nextId>> ]_vars

C16_Witness ==
    /\ pc = "serving"
    /\ err.at = "createPool"
    /\ rows[<<db.database, "student">>] # {}
    /\ rows[<<db.database, "teacher">>] # {}

\* C17: when every awaited promise of the startup settles, the startup ends,
\* either listening with the pool or exited with status 1, never both; it
\* calls getDBConfig at most retries times; and once the process has exited
\* no step of the startup follows
C17_StartupTerminates ==
    /\ <>(pc \in {"serving", "exited"})
    /\ [](pc = "serving" => (listening /\ db \in pools /\ exitCode = 0 - 1))
    /\ [](pc = "exited" => (~listening /\ exitCode = 1))
    /\ [](getDBConfigCalls <= retries /\ sleeps < retries)
    /\ [][ (pc \in {"serving", "exited"}) => (pc' = pc) ]_vars
    /\ [][ (pc = "exited")
              => UNCHANGED <<i, sleeps, getDBConfigCalls, listening,
                             exitCode, db, pools>> ]_vars

C17_Witness ==
    /\ pc = "exited"
    /\ fatal.attempt = retries
    /\ retries = 3
    /\ sleeps = 2

\* C18: ensureTables is invoked, that is connectWithRetry has returned
\* normally, only with db referring to a pool that was built
C18_ReturnCarriesPool ==
    ensureTablesRuns > 0 => db \in pools

====
